---- MODULE Spec2Model ----
(***************************************************************************)
(* State machine of the App component (src/unnamed/part_000): the uploaded *)
(* files, the sheet selection, the list of analysis steps and the          *)
(* asynchronous executions of executeStep started by runAnalysis and       *)
(* handleReAnalyzeStep.                                                    *)
(*                                                                         *)
(* JavaScript runs every handler to its next await without interleaving:   *)
(* an action is one such stretch.  The one stretch cut in two is the try    *)
(* block that throws, so that the status analyzing set before it shows; no *)
(* other handler or completion runs in between.  A handler sees the state  *)
(* of the latest render, which is the current state.  Date.now() is a      *)
(* clock that has advanced between two calls of runAnalysis.               *)
(***************************************************************************)
EXTENDS Integers, Sequences, FiniteSets, Bags, TLC

\* ---------------------------------------------------------------- bounds
\* files per upload and sheets per file, for the selection handlers
MaxFiles == 2
MaxSheets == 3
\* steps per runAnalysis, executions in flight, value of the clock
MaxSteps == 2
MaxTasks == 2
MaxNow == 2
\* window.innerWidth, for the resize handlers
WindowWidth == 1000

\* ------------------------------------------------------ program constants
\* useState(300), useState(380)
InitialLeftWidth == 300
InitialRightWidth == 380
\* newWidth > 150 && newWidth < 600
MinLeftWidth == 150
MaxLeftWidth == 600
\* newWidth > 250 && newWidth < 800
MinRightWidth == 250
MaxRightWidth == 800

VARIABLES fileDatas, selectedSheetsMap, stepAnalyses, tasks, now,
          sidebarVisible, leftWidth, rightWidth, isResizingLeft, isResizingRight

\* the widths of the two side panels and the flags of the drags in progress
panels == <<leftWidth, rightWidth, isResizingLeft, isResizingRight>>

layout == <<sidebarVisible, panels>>

vars == <<fileDatas, selectedSheetsMap, stepAnalyses, tasks, now, layout>>

\* ------------------------------------------------------------ small helpers
Min(a, b) == IF a < b THEN a ELSE b

Max(a, b) == IF a > b THEN a ELSE b

\* fileDatas is null or an array of files; a file is modelled by the number
\* of its sheets (FileData.sheets.length).
NullFiles == [isNull |-> TRUE, files |-> <<>>]

Loaded(arr) == [isNull |-> FALSE, files |-> arr]

RECURSIVE SeqsUpTo(_, _)
SeqsUpTo(S, n) ==
  IF n = 0 THEN {<<>>}
  ELSE LET shorter == SeqsUpTo(S, n - 1)
       IN shorter \cup {Append(q, x) : q \in {r \in shorter : Len(r) = n - 1}, x \in S}

\* The arrays FileUploader may hand to handleDataLoaded.
Uploads == SeqsUpTo(0..MaxSheets, MaxFiles)

\* The uploads used where the analysis runs: no file, a file without
\* sheets, a file with one sheet.
SmallUploads == {<<>>, <<0>>, <<1>>}

\* ------------------------------------------------------------ step records
\* result is optional
NoResult == [defined |-> FALSE, title |-> <<>>, description |-> <<>>]

\* The value analyzeSingleStep(step.title, step.description, ..) returns: an
\* analysis of that title and description.
ResultOf(step) == [defined |-> TRUE, title |-> step.title, description |-> step.description]

\* ------------------------------------------------- parsing "Title: Description"
Digit == <<"1", "2", "3", "4", "5", "6", "7", "8", "9">>

RECURSIVE TrimStart(_)
TrimStart(s) ==
  IF s # <<>> /\ Head(s) = " " THEN TrimStart(Tail(s)) ELSE s

RECURSIVE TrimEnd(_)
TrimEnd(s) ==
  IF s # <<>> /\ s[Len(s)] = " " THEN TrimEnd(SubSeq(s, 1, Len(s) - 1)) ELSE s

Trim(s) == TrimEnd(TrimStart(s))

\* position of the first ':' of s, 0 when there is none
FirstColon(s) ==
  LET ps == {i \in 1..Len(s) : s[i] = ":"}
  IN IF ps = {} THEN 0 ELSE CHOOSE i \in ps : \A j \in ps : i <= j

ParseStep(s, idx, t) ==
  LET c == FirstColon(s)
      part0 == IF c = 0 THEN s ELSE SubSeq(s, 1, c - 1)
      rest == IF c = 0 THEN <<>> ELSE SubSeq(s, c + 1, Len(s))
      title == IF Trim(part0) # <<>> THEN Trim(part0) ELSE <<"#", Digit[idx + 1]>>
      description == IF Trim(rest) # <<>> THEN Trim(rest) ELSE s
  IN [id |-> <<t, idx>>, title |-> title, description |-> description,
      status |-> "pending", result |-> NoResult]

\* The step lists ChatPanel may pass to runAnalysis: the empty list and,
\* for every length, one list whose strings exercise both branches of the
\* parser (a title and a description; no title).
StepString(i) == IF i % 2 = 1 THEN <<"a", ":", "b">> ELSE <<" ", ":", "c", " ">>

CustomSteps == {[i \in 1..n |-> StepString(i)] : n \in 0..MaxSteps}

NewTitles == {<<"x">>}

NewDescriptions == {<<"y">>}

\* ------------------------------------------------------------ activeSheets
\* The sheets of the selection: one entry per selected (file, sheet) pair
\* whose file exists; the entry is undefined when the file has no such sheet.
ActiveSheets(fd, sel) ==
  IF fd.isNull THEN {}
  ELSE UNION {{[file |-> f, sheet |-> s, undef |-> ~(s < fd.files[f + 1])] : s \in sel[f]} :
                f \in {g \in DOMAIN sel : g < Len(fd.files)}}

activeSheets == ActiveSheets(fileDatas, selectedSheetsMap)

\* ------------------------------------------------------------------- tasks
\* One task per execution in flight, started by runAnalysis or by
\* handleReAnalyzeStep.  It holds what the closure captured: the list the
\* loop of runAnalysis walks (steps), the step executeStep is working on
\* (step, const step = currentSteps[index]) and activeSheets (sheets); and
\* its position: "try" inside the try block before the call, "await" while
\* analyzeSingleStep is outstanding.  hist is the record of what the task
\* has done (a step marked analyzing, its call issued, the step marked done
\* or error: settled), missed tells whether one of its updates found
\* stepAnalyses empty, and passed is the set of sheets whose rows and
\* columns went into its latest call.
NoTask ==
  [kind |-> "none", idx |-> 0, steps |-> <<>>, step |-> [id |-> <<0, 0>>, title |-> <<>>, description |-> <<>>],
   sheets |-> {}, pc |-> "idle", hist |-> <<>>, missed |-> FALSE, passed |-> {}]

\* the fields of a step that executeStep reads
CapturedStep(s) == [id |-> s.id, title |-> s.title, description |-> s.description]

Captured(steps) == [i \in 1..Len(steps) |-> CapturedStep(steps[i])]

\* tasks is the bag of the executions in flight
Running == BagToSet(tasks)

\* no handler is in the middle of a synchronous stretch
NoSync == \A t \in Running : t.pc # "try"

CanSpawn == BagCardinality(tasks) < MaxTasks

\* ---------------------------------------------------- setStepAnalyses updaters
\* prev.map((s, i) => i === index ? { ...s, status: 'analyzing' } : s)
MarkAnalyzing(prev, index) ==
  [i \in 1..Len(prev) |-> IF i = index + 1 THEN [prev[i] EXCEPT !.status = "analyzing"] ELSE prev[i]]

\* An update that writes the captured step back instead of the current one:
\* { ...step, status: 'done', result }
MarkDoneFromCaptured(prev, index, step, result) ==
  [i \in 1..Len(prev) |->
     IF i = index + 1
     THEN [prev[i] EXCEPT !.id = step.id, !.title = step.title,
                          !.description = step.description,
                          !.status = "done", !.result = result]
     ELSE prev[i]]

\* a step object with no field set
Hole == [id |-> <<0, 0>>, title |-> <<>>, description |-> <<>>, status |-> "", result |-> NoResult]

\* An update by copy and assignment, const next = [...prev]; next[index] =
\* { ...next[index], status: 'done', result }, which creates the element
\* when prev has none at index.
MarkDoneByAssignment(prev, index, step, result) ==
  [i \in 1..Max(Len(prev), index + 1) |->
     IF i = index + 1
     THEN [(IF i <= Len(prev) THEN prev[i] ELSE Hole) EXCEPT !.status = "done", !.result = result]
     ELSE IF i <= Len(prev) THEN prev[i] ELSE Hole]

\* prev.map((s, i) => i === index ? { ...s, status: 'done', result } : s)
MarkDone(prev, index, step, result) ==
  [i \in 1..Len(prev) |->
     IF i = index + 1 THEN [prev[i] EXCEPT !.status = "done", !.result = result] ELSE prev[i]]

\* An update that drops the failed step: prev.filter((s, i) => i !== index)
MarkErrorDropped(prev, index) ==
  IF index < Len(prev)
  THEN [i \in 1..(Len(prev) - 1) |-> IF i < index + 1 THEN prev[i] ELSE prev[i + 1]]
  ELSE prev

\* prev.map((s, i) => i === index ? { ...s, status: 'error' } : s)
MarkError(prev, index) ==
  [i \in 1..Len(prev) |-> IF i = index + 1 THEN [prev[i] EXCEPT !.status = "error"] ELSE prev[i]]

\* ------------------------------------------------------------- executeStep
\* What becomes of a task when executeStep returns: the loop of runAnalysis
\* goes on to the next index, anything else ends.
LoopNext(t) ==
  IF t.kind = "run" /\ t.idx + 1 < Len(t.steps)
  THEN [t EXCEPT !.idx = t.idx + 1, !.step = t.steps[t.idx + 2]]
  ELSE NoTask

\* the task has made the update ev on the list prev
Did(t, ev, prev) ==
  [t EXCEPT !.hist = Append(t.hist, <<t.idx, ev>>),
            !.missed = t.missed \/ prev = <<>>]

\* An executeStep that reads the selection of the latest render, as through
\* a ref, instead of the activeSheets of its closure
CallSheetsOfLatestRender(t) == activeSheets

\* the sheets behind combinedSample and combinedColumns: the activeSheets
\* of the closure
CallSheets(t) == t.sheets

Called(t) ==
  [t EXCEPT !.hist = Append(t.hist, <<t.idx, "call">>), !.pc = "await", !.passed = CallSheets(t)]

Throws(t) == \E sh \in t.sheets : sh.undef

RECURSIVE EnterTask(_, _)

\* A loop that calls executeStep without awaiting it: the call is in flight
\* and the loop has already gone on to the next index.
AwaitCallForgotten(t, prev) ==
  LET waiting == [Called(t) EXCEPT !.kind = "reanalyze"]
      next == LoopNext(Called(t))
  IN IF next = NoTask THEN SetToBag({Called(t)}) ELSE SetToBag({waiting}) (+) EnterTask(next, prev)

\* The task that has called analyzeSingleStep: executeStep awaits the call,
\* and runAnalysis awaits executeStep, so the task does nothing until the
\* call settles.
AwaitCall(t, prev) == SetToBag({Called(t)})

\* executeStep from its first line to its first pause, for a task t about
\* to call it on the list prev.  With no active sheet it returns at once, and
\* so does every later iteration of the loop: the task is over.  Otherwise
\* the step is marked analyzing, and either building the sample is going to
\* throw (an undefined sheet has no rows) or analyzeSingleStep is called.
EnterTask(t, prev) ==
  IF t.sheets = {} THEN EmptyBag
  ELSE IF Throws(t) THEN SetToBag({[Did(t, "analyzing", prev) EXCEPT !.pc = "try"]})
  ELSE AwaitCall(Did(t, "analyzing", prev), prev)

EnterList(t, prev) ==
  IF t.sheets = {} THEN prev ELSE MarkAnalyzing(prev, t.idx)

\* executeStep has returned for task t, which leaves the list as prev: the
\* loop of runAnalysis, if any, calls executeStep for the next index.
ReturnTask(t, prev) ==
  IF LoopNext(t) = NoTask THEN EmptyBag ELSE EnterTask(LoopNext(t), prev)

ReturnList(t, prev) ==
  IF LoopNext(t) = NoTask THEN prev ELSE EnterList(LoopNext(t), prev)

\* -------------------------------------------------------------------- Init
EmptyMap == [k \in {} |-> {}]

Init ==
  /\ fileDatas = NullFiles
  /\ selectedSheetsMap = EmptyMap
  /\ stepAnalyses = <<>>
  /\ tasks = EmptyBag
  /\ now = 0
  /\ sidebarVisible = TRUE
  /\ leftWidth = InitialLeftWidth
  /\ rightWidth = InitialRightWidth
  /\ isResizingLeft = FALSE
  /\ isResizingRight = FALSE

\* ----------------------------------------------------------------- actions
HandleDataLoaded(dataArray) ==
  /\ NoSync
  /\ fileDatas' = Loaded(dataArray)
  /\ selectedSheetsMap' = IF Len(dataArray) > 0 THEN (0 :> {0}) ELSE EmptyMap
  /\ stepAnalyses' = <<>>
  /\ UNCHANGED <<tasks, now, layout>>

\* Building the sample throws on the undefined sheet; the catch block marks
\* the step error and executeStep returns.
ExecuteStepCatch(t) ==
  LET marked == MarkError(stepAnalyses, t.idx)
      u == Did(t, "settled", stepAnalyses)
  IN
  /\ t.pc = "try"
  /\ stepAnalyses' = ReturnList(u, marked)
  /\ tasks' = (tasks (-) SetToBag({t})) (+) ReturnTask(u, marked)
  /\ UNCHANGED <<fileDatas, selectedSheetsMap, now, layout>>

\* analyzeSingleStep resolves: the step is marked done with the result and
\* executeStep returns.
Resolve(t) ==
  LET marked == MarkDone(stepAnalyses, t.idx, t.step, ResultOf(t.step))
      u == Did(t, "settled", stepAnalyses)
  IN
  /\ NoSync
  /\ t.pc = "await"
  /\ stepAnalyses' = ReturnList(u, marked)
  /\ tasks' = (tasks (-) SetToBag({t})) (+) ReturnTask(u, marked)
  /\ UNCHANGED <<fileDatas, selectedSheetsMap, now, layout>>

\* analyzeSingleStep rejects: the catch block marks the step error and
\* executeStep returns.
Reject(t) ==
  LET marked == MarkError(stepAnalyses, t.idx)
      u == Did(t, "settled", stepAnalyses)
  IN
  /\ NoSync
  /\ t.pc = "await"
  /\ stepAnalyses' = ReturnList(u, marked)
  /\ tasks' = (tasks (-) SetToBag({t})) (+) ReturnTask(u, marked)
  /\ UNCHANGED <<fileDatas, selectedSheetsMap, now, layout>>

\* runAnalysis up to its first pause: the new list is installed and
\* executeStep is called for index 0.
RunAnalysis(customSteps) ==
  /\ NoSync
  /\ ~fileDatas.isNull
  /\ CanSpawn
  /\ IF Len(customSteps) = 0
     THEN UNCHANGED vars
     ELSE LET initialSteps ==
                [i \in 1..Len(customSteps) |-> ParseStep(customSteps[i], i - 1, now + 1)]
              t == [kind |-> "run", idx |-> 0, steps |-> Captured(initialSteps),
                    step |-> CapturedStep(initialSteps[1]), sheets |-> activeSheets,
                    pc |-> "start", hist |-> <<>>, missed |-> FALSE, passed |-> {}]
          IN /\ now < MaxNow
             /\ now' = now + 1
             /\ stepAnalyses' = EnterList(t, initialSteps)
             /\ tasks' = tasks (+) EnterTask(t, initialSteps)
             /\ UNCHANGED <<fileDatas, selectedSheetsMap, layout>>

\* runAnalysis() with customSteps undefined: !customSteps, it returns
RunAnalysisUndefined ==
  /\ NoSync
  /\ ~fileDatas.isNull
  /\ UNCHANGED vars

\* A lookup that falls back on the first step of the list:
\* Math.max(0, stepAnalyses.findIndex(s => s.id === id))
FindIndexOrFirst(steps, id) ==
  LET ps == {i \in 1..Len(steps) : steps[i].id = id}
  IN IF ps = {} THEN (IF steps = <<>> THEN -1 ELSE 0)
     ELSE (CHOOSE i \in ps : \A j \in ps : i <= j) - 1

\* stepAnalyses.findIndex(s => s.id === id), 0-based, -1 when absent
FindIndex(steps, id) ==
  LET ps == {i \in 1..Len(steps) : steps[i].id = id}
  IN IF ps = {} THEN -1 ELSE (CHOOSE i \in ps : \A j \in ps : i <= j) - 1

\* handleReAnalyzeStep up to its first pause: the edited step is written
\* into a copy of the list, the copy is installed and executeStep is called.
HandleReAnalyzeStep(id, newTitle, newDescription) ==
  LET index == FindIndex(stepAnalyses, id) IN
  /\ NoSync
  /\ CanSpawn
  /\ IF index = -1
     THEN UNCHANGED vars
     ELSE LET updatedSteps ==
                [stepAnalyses EXCEPT ![index + 1] =
                   [@ EXCEPT !.title = newTitle, !.description = newDescription,
                             !.status = "analyzing"]]
              t == [kind |-> "reanalyze", idx |-> index, steps |-> <<>>,
                    step |-> CapturedStep(updatedSteps[index + 1]), sheets |-> activeSheets,
                    pc |-> "start", hist |-> <<>>, missed |-> FALSE, passed |-> {}]
          IN /\ stepAnalyses' = EnterList(t, updatedSteps)
             /\ tasks' = tasks (+) EnterTask(t, updatedSteps)
             /\ UNCHANGED <<fileDatas, selectedSheetsMap, now, layout>>

\* Sidebar calls the toggles with indices of files and sheets it displays.
HandleToggleSheet(fileIdx, sheetIdx) ==
  LET old == IF fileIdx \in DOMAIN selectedSheetsMap THEN selectedSheetsMap[fileIdx] ELSE {}
      set == IF sheetIdx \in old THEN old \ {sheetIdx} ELSE old \cup {sheetIdx}
  IN
  /\ NoSync
  /\ ~fileDatas.isNull
  /\ fileIdx < Len(fileDatas.files)
  /\ sheetIdx < fileDatas.files[fileIdx + 1]
  /\ selectedSheetsMap' =
       IF set = {}
       THEN [k \in DOMAIN selectedSheetsMap \ {fileIdx} |-> selectedSheetsMap[k]]
       ELSE [k \in DOMAIN selectedSheetsMap \cup {fileIdx} |->
               IF k = fileIdx THEN set ELSE selectedSheetsMap[k]]
  /\ UNCHANGED <<fileDatas, stepAnalyses, tasks, now, layout>>

HandleToggleFile(fileIdx) ==
  LET currentlySelected ==
        IF fileIdx \in DOMAIN selectedSheetsMap THEN selectedSheetsMap[fileIdx] ELSE {}
      nSheets == fileDatas.files[fileIdx + 1]
      allIndices == 0..(nSheets - 1)
  IN
  /\ NoSync
  /\ ~fileDatas.isNull
  /\ fileIdx < Len(fileDatas.files)
  /\ selectedSheetsMap' =
       IF Cardinality(currentlySelected) = nSheets
       THEN [k \in DOMAIN selectedSheetsMap \ {fileIdx} |-> selectedSheetsMap[k]]
       ELSE [k \in DOMAIN selectedSheetsMap \cup {fileIdx} |->
               IF k = fileIdx THEN allIndices ELSE selectedSheetsMap[k]]
  /\ UNCHANGED <<fileDatas, stepAnalyses, tasks, now, layout>>

Reset ==
  /\ NoSync
  /\ fileDatas' = NullFiles
  /\ stepAnalyses' = <<>>
  /\ selectedSheetsMap' = EmptyMap
  /\ sidebarVisible' = TRUE
  /\ UNCHANGED <<tasks, now, panels>>

\* the ids runAnalysis can have given
StepIds == {<<t, i>> : t \in 1..MaxNow, i \in 0..(MaxSteps - 1)}

Next ==
  \/ \E dataArray \in SmallUploads : HandleDataLoaded(dataArray)
  \/ \E customSteps \in CustomSteps : RunAnalysis(customSteps)
  \/ RunAnalysisUndefined
  \/ \E t \in Running : ExecuteStepCatch(t)
  \/ \E t \in Running : Resolve(t)
  \/ \E t \in Running : Reject(t)
  \/ \E id \in StepIds, nt \in NewTitles, nd \in NewDescriptions : HandleReAnalyzeStep(id, nt, nd)
  \/ \E f \in 0..(MaxFiles - 1), s \in 0..(MaxSheets - 1) : HandleToggleSheet(f, s)
  \/ \E f \in 0..(MaxFiles - 1) : HandleToggleFile(f)
  \/ Reset

Spec == Init /\ [][Next]_vars

\* The selection handlers alone, over every upload of up to MaxFiles files of
\* up to MaxSheets sheets.
NextSel ==
  \/ \E dataArray \in Uploads : HandleDataLoaded(dataArray)
  \/ \E f \in 0..(MaxFiles - 1), s \in 0..(MaxSheets - 1) : HandleToggleSheet(f, s)
  \/ \E f \in 0..(MaxFiles - 1) : HandleToggleFile(f)
  \/ Reset

SpecSel == Init /\ [][NextSel]_vars

\* ------------------------------------------------------- resizing the panels
\* onClick={() => setSidebarVisible(true)}, shown while the sidebar is hidden
ShowSidebar ==
  /\ NoSync
  /\ ~fileDatas.isNull
  /\ ~sidebarVisible
  /\ sidebarVisible' = TRUE
  /\ UNCHANGED <<fileDatas, selectedSheetsMap, stepAnalyses, tasks, now, panels>>

\* onToggleVisibility={() => setSidebarVisible(!sidebarVisible)}
ToggleSidebar ==
  /\ NoSync
  /\ ~fileDatas.isNull
  /\ sidebarVisible' = ~sidebarVisible
  /\ UNCHANGED <<fileDatas, selectedSheetsMap, stepAnalyses, tasks, now, panels>>

\* onMouseDown of the left handle, which is rendered while the sidebar is
\* visible
MouseDownLeft ==
  /\ NoSync
  /\ ~fileDatas.isNull
  /\ sidebarVisible
  /\ isResizingLeft' = TRUE
  /\ UNCHANGED <<fileDatas, selectedSheetsMap, stepAnalyses, tasks, now, sidebarVisible,
                 leftWidth, rightWidth, isResizingRight>>

\* onMouseDown of the right handle
MouseDownRight ==
  /\ NoSync
  /\ ~fileDatas.isNull
  /\ isResizingRight' = TRUE
  /\ UNCHANGED <<fileDatas, selectedSheetsMap, stepAnalyses, tasks, now, sidebarVisible,
                 leftWidth, rightWidth, isResizingLeft>>

\* A test that lets the limits themselves through:
\* newWidth >= 150 && newWidth <= 600
LeftWidthOkInclusive(newWidth) == newWidth >= MinLeftWidth /\ newWidth <= MaxLeftWidth

\* newWidth > 150 && newWidth < 600
LeftWidthOk(newWidth) == newWidth > MinLeftWidth /\ newWidth < MaxLeftWidth

\* newWidth > 250 && newWidth < 800
RightWidthOk(newWidth) == newWidth > MinRightWidth /\ newWidth < MaxRightWidth

\* the listener of mousemove on window, for a pointer at clientX in a window
\* of width innerWidth
HandleMouseMove(clientX, innerWidth) ==
  /\ NoSync
  /\ leftWidth' = IF isResizingLeft /\ LeftWidthOk(clientX) THEN clientX ELSE leftWidth
  /\ rightWidth' = IF isResizingRight /\ RightWidthOk(innerWidth - clientX)
                   THEN innerWidth - clientX ELSE rightWidth
  /\ UNCHANGED <<fileDatas, selectedSheetsMap, stepAnalyses, tasks, now, sidebarVisible,
                 isResizingLeft, isResizingRight>>

\* the listener of mouseup on window
HandleMouseUp ==
  /\ NoSync
  /\ isResizingLeft' = FALSE
  /\ isResizingRight' = FALSE
  /\ UNCHANGED <<fileDatas, selectedSheetsMap, stepAnalyses, tasks, now, sidebarVisible,
                 leftWidth, rightWidth>>

\* The pointer positions and window widths tried: at, just below and just
\* above every limit of the two tests, the pointer also left of the window.
Around(S) == UNION {{x - 1, x, x + 1} : x \in S}

InnerWidths == {WindowWidth, WindowWidth + 400}

ClientXs ==
  Around({0, MinLeftWidth, MaxLeftWidth})
    \cup {w - r : w \in InnerWidths, r \in Around({MinRightWidth, MaxRightWidth})}

NextResize ==
  \/ \E dataArray \in SmallUploads : HandleDataLoaded(dataArray)
  \/ Reset
  \/ ShowSidebar
  \/ ToggleSidebar
  \/ MouseDownLeft
  \/ MouseDownRight
  \/ \E clientX \in ClientXs, innerWidth \in InnerWidths : HandleMouseMove(clientX, innerWidth)
  \/ HandleMouseUp

SpecResize == Init /\ [][NextResize]_vars

\* Every call of analyzeSingleStep settles, and a handler that has started
\* runs on to its next await.
Settle == \E t \in Running : Resolve(t) \/ Reject(t)

RunOn == \E t \in Running : ExecuteStepCatch(t)

FairSpec == Spec /\ WF_vars(Settle) /\ WF_vars(RunOn)

\* ------------------------------------------------------- notions for the claims
Ids(steps) == [i \in 1..Len(steps) |-> steps[i].id]

Settled(st) == st \in {"done", "error"}

\* a setStepAnalyses update made by executeStep
ExecuteStepUpdate == \E t \in Running : ExecuteStepCatch(t) \/ Resolve(t) \/ Reject(t)

ReAnalyze ==
  \E id \in StepIds, nt \in NewTitles, nd \in NewDescriptions : HandleReAnalyzeStep(id, nt, nd)

\* the list is replaced wholesale
Replace ==
  \/ \E customSteps \in CustomSteps : Len(customSteps) > 0 /\ RunAnalysis(customSteps)
  \/ \E dataArray \in Uploads : HandleDataLoaded(dataArray)
  \/ Reset

\* number of analyzeSingleStep calls that have not settled
Outstanding == BagCardinality([t \in {u \in Running : u.pc = "await"} |-> tasks[t]])

Analyzing == {i \in 1..Len(stepAnalyses) : stepAnalyses[i].status = "analyzing"}

\* --------------------------------------------------------------------- C1
\* C1: every file index that is a key of selectedSheetsMap maps to a
\* non-empty set of sheet indices.
C1_NonEmptySets == \A f \in DOMAIN selectedSheetsMap : selectedSheetsMap[f] # {}

\* --------------------------------------------------------------------- C2
AllowedStatusChange(a, b, rerun) ==
  \/ a = b
  \/ a = "pending" /\ b = "analyzing"
  \/ a = "analyzing" /\ Settled(b)
  \/ Settled(a) /\ b = "analyzing" /\ rerun

\* C2: as long as the list is not replaced, the status of the step at every
\* position changes only pending -> analyzing, analyzing -> done,
\* analyzing -> error and, in a step of handleReAnalyzeStep,
\* done/error -> analyzing.
C2_StatusTransitions ==
  [][(Ids(stepAnalyses') = Ids(stepAnalyses) /\ ~Replace) =>
       \A i \in 1..Len(stepAnalyses) :
         AllowedStatusChange(stepAnalyses[i].status, stepAnalyses'[i].status, ReAnalyze)]_vars

\* --------------------------------------------------------------------- C3
\* C3: at most one call of analyzeSingleStep is outstanding and at most one
\* step has status analyzing.
C3_OneAtATime == Outstanding <= 1 /\ Cardinality(Analyzing) <= 1

\* --------------------------------------------------------------------- C4
OthersKept(id) ==
  /\ Len(stepAnalyses') = Len(stepAnalyses)
  /\ \A i \in 1..Len(stepAnalyses) :
       stepAnalyses[i].id # id => stepAnalyses'[i] = stepAnalyses[i]

\* C4: handleReAnalyzeStep(id, ..) and every update of the executeStep it
\* starts change no step of stepAnalyses other than the one whose id is id.
C4_OtherStepsCached ==
  [][/\ \A id \in StepIds, nt \in NewTitles, nd \in NewDescriptions :
          HandleReAnalyzeStep(id, nt, nd) => OthersKept(id)
     /\ \A t \in Running :
          (t.kind = "reanalyze" /\ (ExecuteStepCatch(t) \/ Resolve(t) \/ Reject(t)))
          => OthersKept(t.step.id)]_vars

\* --------------------------------------------------------------------- C5
SameTexts ==
  \A i \in 1..Len(stepAnalyses) :
    /\ stepAnalyses'[i].title = stepAnalyses[i].title
    /\ stepAnalyses'[i].description = stepAnalyses[i].description

\* C5 as stated: while a step stays in stepAnalyses its id, title and
\* description never change.
C5_OnlyStatusMutates ==
  [][Ids(stepAnalyses') = Ids(stepAnalyses) => SameTexts]_vars

\* C5 as amended: while a step stays in stepAnalyses, the updates of
\* executeStep leave its id, title and description as they are, and its
\* title and description change in a step of handleReAnalyzeStep only,
\* which leaves every id as it is.
C5_TextsChangeOnReAnalyzeOnly ==
  [][/\ ExecuteStepUpdate => (Ids(stepAnalyses') = Ids(stepAnalyses) /\ SameTexts)
     /\ ReAnalyze => Ids(stepAnalyses') = Ids(stepAnalyses)
     /\ (Ids(stepAnalyses') = Ids(stepAnalyses) /\ ~SameTexts) => ReAnalyze]_vars

\* a re-run step with its new title has been analyzed to the end
C5_Witness ==
  \E i \in 1..Len(stepAnalyses) :
    /\ stepAnalyses[i].title \in NewTitles
    /\ stepAnalyses[i].status = "done"
    /\ stepAnalyses[i].result.title \in NewTitles

\* --------------------------------------------------------------------- C6
\* C6: the updates of executeStep and handleReAnalyzeStep leave the length
\* of stepAnalyses and the order of its ids unchanged; the sequence of ids
\* changes only when runAnalysis, handleDataLoaded or reset replaces the list.
C6_NeverDeletedIndividually ==
  [][/\ (ExecuteStepUpdate \/ ReAnalyze) => Ids(stepAnalyses') = Ids(stepAnalyses)
     /\ Ids(stepAnalyses') # Ids(stepAnalyses) => Replace]_vars

\* a list of two steps, the first failed and the second re-run to the end
C6_Witness ==
  /\ Len(stepAnalyses) = 2
  /\ stepAnalyses[1].status = "error"
  /\ stepAnalyses[2].status = "done"
  /\ stepAnalyses[2].title \in NewTitles

\* --------------------------------------------------------------------- C7
\* the entries of hist that settle index j before position k
SettledBefore(h, j, k) == \E m \in 1..(k - 1) : h[m] = <<j, "settled">>

\* C7: in every runAnalysis, a step is marked analyzing and its call is
\* issued only after every lower index has been settled (marked done or
\* error) by that run, each index is called at most once, and while a call
\* of the run is outstanding nothing else of the run happens.
C7_SequentialRun ==
  \A t \in Running : t.kind = "run" =>
    LET h == t.hist IN
    /\ \A k \in 1..Len(h) :
         h[k][2] \in {"analyzing", "call"} =>
           /\ \A j \in 0..(h[k][1] - 1) : SettledBefore(h, j, k)
           /\ \A m \in 1..(k - 1) : h[m][2] = h[k][2] => h[m][1] < h[k][1]
    /\ \A k \in 1..Len(h) : h[k][1] <= t.idx
    /\ tasks[t] = 1
    /\ t.pc = "await" => h[Len(h)] = <<t.idx, "call">>

\* a run has issued the call for its second step
C7_Witness ==
  \E t \in Running :
    /\ t.kind = "run" /\ t.pc = "await" /\ t.idx = 1
    /\ \E k \in 1..Len(t.hist) : t.hist[k] = <<0, "settled">>

\* --------------------------------------------------------------------- C8
At(i, id) == i <= Len(stepAnalyses) /\ stepAnalyses[i].id = id

\* C8: when every call settles, a step that is pending or analyzing is
\* eventually done or error, unless the list is replaced first.
C8_EventuallySettled ==
  \A i \in 1..MaxSteps, id \in StepIds :
    (At(i, id) /\ ~Settled(stepAnalyses[i].status))
      ~> (~At(i, id) \/ Settled(stepAnalyses[i].status))

\* --------------------------------------------------------------------- C9
\* C9: reset and handleDataLoaded leave stepAnalyses empty, and an empty
\* stepAnalyses becomes non-empty only in a step of runAnalysis with a
\* non-empty list of steps.
C9_StaysEmpty ==
  [][/\ (Reset \/ \E dataArray \in Uploads : HandleDataLoaded(dataArray)) => stepAnalyses' = <<>>
     /\ (stepAnalyses = <<>> /\ stepAnalyses' # <<>>) =>
          \E customSteps \in CustomSteps : Len(customSteps) > 0 /\ RunAnalysis(customSteps)]_vars

\* the list is empty, and a run that is still going has completed a call
\* when stepAnalyses was empty
C9_Witness ==
  /\ stepAnalyses = <<>>
  /\ \E t \in Running : t.missed /\ \E k \in 1..Len(t.hist) : t.hist[k] = <<0, "settled">>

\* -------------------------------------------------------------------- C10
\* step i has just been given the status done or a result
Completed(i) ==
  /\ stepAnalyses'[i].status = "done"
  /\ stepAnalyses[i].status # "done" \/ stepAnalyses'[i].result # stepAnalyses[i].result

\* C10: a step is set to done with a result only by the completion of a
\* call that was issued for that very step, with the title and description
\* the step has, and the result is the value that call returned.
C10_ResultOfOwnCall ==
  [][\A t \in Running : Resolve(t) =>
       \A i \in 1..Len(stepAnalyses) :
         Completed(i) =>
           /\ stepAnalyses[i].id = t.step.id
           /\ stepAnalyses'[i].title = t.step.title
           /\ stepAnalyses'[i].description = t.step.description
           /\ stepAnalyses'[i].result = ResultOf(t.step)]_vars

\* -------------------------------------------------------------------- C11
\* the run of task t goes on after index t.idx: its call for the next index
\* is outstanding
GoesOn(t) ==
  \E u \in BagToSet(tasks') :
    /\ u.kind = "run" /\ u.steps = t.steps /\ u.sheets = t.sheets
    /\ u.idx = t.idx + 1 /\ u.pc = "await"

\* C11: when the call for step i of a run rejects, step i becomes error and
\* keeps its result, the run goes on with step i+1 (which is marked
\* analyzing and whose call is issued) when there is one, and no other step
\* changes its status or result.
C11_FailureDoesNotAbort ==
  [][\A t \in Running : (t.kind = "run" /\ Reject(t)) =>
       LET i == t.idx + 1
           more == i < Len(t.steps)
       IN /\ Len(stepAnalyses') = Len(stepAnalyses)
          /\ more => GoesOn(t)
          /\ \A j \in 1..Len(stepAnalyses) :
               /\ stepAnalyses'[j].result = stepAnalyses[j].result
               /\ IF j = i /\ stepAnalyses[j].id = t.step.id
                  THEN stepAnalyses'[j].status = "error"
                  ELSE IF more /\ j = i + 1 /\ stepAnalyses[j].id = t.steps[i + 1].id
                  THEN stepAnalyses'[j].status = "analyzing"
                  ELSE stepAnalyses'[j].status = stepAnalyses[j].status]_vars

\* -------------------------------------------------------------------- C12
\* C12: every (file index, sheet index) of selectedSheetsMap names a file
\* of fileDatas and a sheet of that file, and no entry of activeSheets is
\* undefined.
C12_SelectionRefersToSheets ==
  /\ \A f \in DOMAIN selectedSheetsMap :
       /\ ~fileDatas.isNull
       /\ f < Len(fileDatas.files)
       /\ \A sh \in selectedSheetsMap[f] : sh < fileDatas.files[f + 1]
  /\ \A sh \in activeSheets : ~sh.undef

\* -------------------------------------------------------------------- C13
\* a run started in this step, or the run of task t gone on in this step,
\* has its call outstanding with the sheets sh
CallsWith(steps, index, sh) ==
  \E u \in BagToSet(tasks') :
    /\ u.kind = "run" /\ u.steps = steps /\ u.idx = index
    /\ u.pc = "await" /\ u.passed = sh

\* C13: the first call of a runAnalysis is given the sheets selected when
\* it was triggered, and every later call of the run the sheets of the call
\* before it, whatever has been toggled in between.
C13_SelectionOfTheTrigger ==
  [][/\ \A customSteps \in CustomSteps :
          (Len(customSteps) > 0 /\ RunAnalysis(customSteps)
             /\ activeSheets # {} /\ \A sh \in activeSheets : ~sh.undef) =>
            \E u \in BagToSet(tasks') :
              u.kind = "run" /\ u.idx = 0 /\ u.pc = "await" /\ u.hist = <<<<0, "analyzing">>, <<0, "call">>>>
                /\ u.passed = activeSheets
     /\ \A t \in Running :
          (t.kind = "run" /\ (Resolve(t) \/ Reject(t)) /\ t.idx + 1 < Len(t.steps)) =>
            CallsWith(t.steps, t.idx + 1, t.passed)]_vars

\* a run is at its second call, with sheets that are no longer the selection
C13_Witness ==
  \E t \in Running :
    /\ t.kind = "run" /\ t.pc = "await" /\ t.idx = 1
    /\ t.passed # {} /\ t.passed # activeSheets

\* -------------------------------------------------------------------- C14
\* nothing of the state changes, and no call is issued
NothingDone ==
  /\ UNCHANGED <<stepAnalyses, fileDatas, selectedSheetsMap>>
  /\ tasks' = tasks

Absent(id) == \A i \in 1..Len(stepAnalyses) : stepAnalyses[i].id # id

\* C14: runAnalysis with no list or an empty list, and handleReAnalyzeStep
\* with an id that no step of stepAnalyses has, change nothing and issue no
\* call.
C14_NoWorkNoChange ==
  [][/\ (RunAnalysisUndefined \/ RunAnalysis(<<>>)) => NothingDone
     /\ \A id \in StepIds, nt \in NewTitles, nd \in NewDescriptions :
          (Absent(id) /\ HandleReAnalyzeStep(id, nt, nd)) => NothingDone]_vars

\* steps are in the list and a call is outstanding, where such a request
\* can be made: an id that no step has, an empty list
C14_Witness ==
  /\ NoSync /\ ~fileDatas.isNull /\ CanSpawn
  /\ stepAnalyses # <<>>
  /\ Outstanding >= 1
  /\ \E id \in StepIds : Absent(id)

\* -------------------------------------------------------------------- C15
MouseMove == \E clientX \in ClientXs, innerWidth \in InnerWidths : HandleMouseMove(clientX, innerWidth)

\* C15: leftWidth is strictly between 150 and 600 and rightWidth strictly
\* between 250 and 800 in every state; a mouse-move changes a width only
\* while the flag of that panel is set, and the flag is set by a mouse-down
\* on that panel's handle only and cleared by every mouse-up.
C15_WidthsWithinLimits ==
  /\ [](/\ leftWidth > MinLeftWidth /\ leftWidth < MaxLeftWidth
        /\ rightWidth > MinRightWidth /\ rightWidth < MaxRightWidth)
  /\ [][/\ MouseMove =>
             /\ leftWidth' # leftWidth => isResizingLeft
             /\ rightWidth' # rightWidth => isResizingRight
        /\ (isResizingLeft' /\ ~isResizingLeft) => MouseDownLeft
        /\ (isResizingRight' /\ ~isResizingRight) => MouseDownRight
        /\ HandleMouseUp => (~isResizingLeft' /\ ~isResizingRight')]_vars

\* both panels have been dragged to the narrowest width that is accepted,
\* and the drags are over
C15_Witness ==
  /\ leftWidth = MinLeftWidth + 1
  /\ rightWidth = MinRightWidth + 1
  /\ ~isResizingLeft /\ ~isResizingRight

====
